---- MODULE Spec2Model ----
(***************************************************************************)
(* A model of trader.py: the Portfolio ledger (buy, sell, get_value), the  *)
(* price source (StockMarketSimulator), the recommender (LLMAnalyzer) and  *)
(* the simulation loop of main().                                          *)
(*                                                                         *)
(* The ledger is modelled on both kinds of Python number. On int amounts   *)
(* (buy, sell, get_value) the arithmetic is exact; prices are multiples of *)
(* 20 so that the fallback limits price*0.95 and price*1.05 are whole      *)
(* numbers. On float amounts (buy_float, sell_float, get_value_float) the  *)
(* arithmetic is that of IEEE 754 binary64, round to nearest, ties to      *)
(* even: every product, difference and sum is rounded to 53 significant    *)
(* bits. The loop of main() is run on int amounts.                         *)
(***************************************************************************)
EXTENDS Integers, Sequences, FiniteSets, TLC

\* ---------------------------------------------------------------- bounds

MaxPriceSteps == 2      \* int prices are 20, 40, ...
MaxShares == 2          \* share counts of a direct buy/sell call
MaxCashSteps == 3       \* int initial cash is 0, 25, 50, ...
MaxCalls == 3           \* direct calls on a Portfolio
MaxSimulationDays == 2  \* configured simulation_days is 1..MaxSimulationDays
MaxDataDate == 1        \* price rows are dated 0..MaxDataDate

Prices == {20 * k : k \in 1..MaxPriceSteps}
InitialCashChoices == {25 * k : k \in 0..MaxCashSteps}

\* main(): symbols (the first two of the five configured)
symbols == <<"AAPL", "MSFT">>
Symbols == {symbols[i] : i \in 1..Len(symbols)}

\* main(): simulation_interval
simulation_interval == 7

VARIABLES
    portfolio,        \* Portfolio: [cash, holdings, transactions]
    initial_cash,     \* the cash the Portfolio was constructed with
    current_date,     \* main(): current_date, in days since simulation_start_date
    call,             \* the last direct call on the Portfolio, its result, the state before it
    ncalls,           \* number of direct calls made
    simulation_days,  \* main(): simulation_days
    historical_data,  \* StockMarketSimulator.historical_data: symbol -> (date -> Close)
    pc,               \* position of main(): "loop", "symbols", "analyze", "trade", "done", "raised"
    exc,              \* the exception that left main(), "" if none
    days_run,         \* main(): days_run
    current_prices,   \* main(): current_prices
    idx,              \* position of `for symbol in symbols` (1-based)
    iterations,       \* passes through the body of the while loop so far
    n_news,           \* calls of fetch_news so far
    n_analyze,        \* calls of analyze so far
    articles,         \* main(): articles, between fetch_news and analyze
    recommendation,   \* main(): recommendation, between analyze and the trade
    step              \* the last symbol traded: the branch taken, the state before

ledger_vars == <<portfolio, initial_cash, current_date, call, ncalls>>
loop_vars == <<simulation_days, historical_data, pc, exc, days_run, current_prices,
               idx, iterations, n_news, n_analyze, articles, recommendation, step>>
vars == <<ledger_vars, loop_vars>>

\* ---------------------------------------------------------------- dicts

EmptyDict == [k \in {} |-> 0]

\* dict.get(k, default)
Get(d, k, default) == IF k \in DOMAIN d THEN d[k] ELSE default

\* d[k] = v
Put(d, k, v) == [x \in (DOMAIN d) \cup {k} |-> IF x = k THEN v ELSE d[x]]

\* ---------------------------------------------------------------- Portfolio

\* Portfolio.__init__
NewPortfolio(cash) ==
    [cash |-> cash, holdings |-> EmptyDict, transactions |-> <<>>]

Transaction(trade_date, symbol, action, price, shares) ==
    [date |-> trade_date, symbol |-> symbol, action |-> action,
     price |-> price, shares |-> shares]

\* buy without the solvency check
buy_Unchecked(pf, symbol, price, shares, trade_date) ==
    [pf |-> [cash |-> pf.cash - price * shares,
             holdings |-> Put(pf.holdings, symbol,
                              Get(pf.holdings, symbol, 0) + shares),
             transactions |-> Append(pf.transactions,
                 Transaction(trade_date, symbol, "BUY", price, shares))],
     ret |-> TRUE]

\* Portfolio.buy on int amounts: the portfolio after the call and the value
\* returned
buy(pf, symbol, price, shares, trade_date) ==
    LET cost == price * shares IN
    IF pf.cash < cost
    THEN [pf |-> pf, ret |-> FALSE]
    ELSE [pf |-> [cash |-> pf.cash - cost,
                  holdings |-> Put(pf.holdings, symbol,
                                   Get(pf.holdings, symbol, 0) + shares),
                  transactions |-> Append(pf.transactions,
                      Transaction(trade_date, symbol, "BUY", price, shares))],
          ret |-> TRUE]

\* sell that, when rejected, leaves a zero entry for the symbol behind
sell_TouchesHoldings(pf, symbol, price, shares, trade_date) ==
    IF Get(pf.holdings, symbol, 0) < shares
    THEN [pf |-> [pf EXCEPT !.holdings =
                      Put(pf.holdings, symbol, Get(pf.holdings, symbol, 0))],
          ret |-> FALSE]
    ELSE [pf |-> [cash |-> pf.cash + price * shares,
                  holdings |-> Put(pf.holdings, symbol,
                                   pf.holdings[symbol] - shares),
                  transactions |-> Append(pf.transactions,
                      Transaction(trade_date, symbol, "SELL", price, shares))],
          ret |-> TRUE]

\* Portfolio.sell on int amounts: the portfolio after the call and the value
\* returned
sell(pf, symbol, price, shares, trade_date) ==
    IF Get(pf.holdings, symbol, 0) < shares
    THEN [pf |-> pf, ret |-> FALSE]
    ELSE [pf |-> [cash |-> pf.cash + price * shares,
                  holdings |-> Put(pf.holdings, symbol,
                                   pf.holdings[symbol] - shares),
                  transactions |-> Append(pf.transactions,
                      Transaction(trade_date, symbol, "SELL", price, shares))],
          ret |-> TRUE]

RECURSIVE HoldingsValue(_, _, _)
HoldingsValue(holdings, prices, todo) ==
    IF todo = {} THEN 0
    ELSE LET s == CHOOSE x \in todo : TRUE IN
         Get(prices, s, 0) * holdings[s]
           + HoldingsValue(holdings, prices, todo \ {s})

\* Portfolio.get_value on int amounts
get_value(pf, prices) ==
    pf.cash + HoldingsValue(pf.holdings, prices, DOMAIN pf.holdings)

\* ---------------------------------------------------------------- Portfolio on floats

\* A Python float x with 0 <= x < 2^15 that is a whole number of units of
\* 2^-45 (every float from 128.0 up is) is held as the two limbs of that
\* number of units: x = (hi * 2^30 + lo) / 2^45, with 0 <= lo < 2^30.
\* Differences, sums and products by a share count of such numbers are again
\* whole numbers of units, so the exact results and their roundings are too.
Limb == 2^30
Float(hi, lo) == [hi |-> hi, lo |-> lo]

RECURSIVE BitLength(_)
\* int.bit_length
BitLength(n) == IF n = 0 THEN 0 ELSE 1 + BitLength(n \div 2)

\* the float nearest to an exact number of units: the number is kept when it
\* has at most 53 significant bits, else it is rounded to a multiple of
\* 2^d, d the count of bits beyond 53, a tie going to the even multiple
fl(x) ==
    LET d == BitLength(x.hi) + 30 - 53 IN
    IF d <= 0 THEN x
    ELSE LET q == 2^d
             r == x.lo % q
             down == x.lo - r
             up == \/ 2 * r > q
                   \/ 2 * r = q /\ (down \div q) % 2 = 1
             lo == IF up THEN down + q ELSE down
         IN IF lo = Limb THEN Float(x.hi + 1, 0) ELSE Float(x.hi, lo)

\* a + b, exact
exact_add(a, b) ==
    Float(a.hi + b.hi + (a.lo + b.lo) \div Limb, (a.lo + b.lo) % Limb)

\* a - b, exact, for b <= a
exact_sub(a, b) ==
    IF a.lo >= b.lo
    THEN Float(a.hi - b.hi, a.lo - b.lo)
    ELSE Float(a.hi - b.hi - 1, a.lo + Limb - b.lo)

RECURSIVE exact_mul(_, _)
\* a * n, exact, for a share count n
exact_mul(a, n) ==
    IF n = 0 THEN Float(0, 0) ELSE exact_add(exact_mul(a, n - 1), a)

\* a < b
float_lt(a, b) == a.hi < b.hi \/ (a.hi = b.hi /\ a.lo < b.lo)

\* price * shares, cash - cost (for cost <= cash) and cash + amount of floats
float_mul(a, n) == fl(exact_mul(a, n))
float_sub(a, b) == fl(exact_sub(a, b))
float_add(a, b) == fl(exact_add(a, b))

\* the floats of the direct calls: 189.84 and 256.02 as prices, 5000.0 and
\* 13904.69 as initial cash
FloatPrices == {Float(6220677, 128849019), Float(8389263, 386547056)}
FloatCashChoices == {Float(163840000, 0), Float(455628881, 987842496)}

\* Portfolio.buy on float amounts
buy_float(pf, symbol, price, shares, trade_date) ==
    LET cost == float_mul(price, shares) IN
    IF float_lt(pf.cash, cost)
    THEN [pf |-> pf, ret |-> FALSE]
    ELSE [pf |-> [cash |-> float_sub(pf.cash, cost),
                  holdings |-> Put(pf.holdings, symbol,
                                   Get(pf.holdings, symbol, 0) + shares),
                  transactions |-> Append(pf.transactions,
                      Transaction(trade_date, symbol, "BUY", price, shares))],
          ret |-> TRUE]

\* Portfolio.sell on float amounts
sell_float(pf, symbol, price, shares, trade_date) ==
    IF Get(pf.holdings, symbol, 0) < shares
    THEN [pf |-> pf, ret |-> FALSE]
    ELSE [pf |-> [cash |-> float_add(pf.cash, float_mul(price, shares)),
                  holdings |-> Put(pf.holdings, symbol,
                                   pf.holdings[symbol] - shares),
                  transactions |-> Append(pf.transactions,
                      Transaction(trade_date, symbol, "SELL", price, shares))],
          ret |-> TRUE]

RECURSIVE KeyOrder(_)
\* the keys of holdings in the order items() yields them, the order of
\* insertion: a key is inserted by the first accepted buy of its symbol,
\* which is also the first BUY record of the symbol in the log
KeyOrder(log) ==
    IF log = <<>> THEN <<>>
    ELSE LET before == KeyOrder(SubSeq(log, 1, Len(log) - 1))
             last == log[Len(log)]
         IN IF /\ last.action = "BUY"
               /\ \A i \in 1..Len(before) : before[i] # last.symbol
            THEN Append(before, last.symbol)
            ELSE before

RECURSIVE AddHoldings(_, _, _, _)
\* the loop of get_value over the keys still to visit: a symbol without a
\* price adds 0 * shares, the int 0
AddHoldings(total_value, holdings, prices, keys) ==
    IF keys = <<>> THEN total_value
    ELSE AddHoldings(
             IF Head(keys) \in DOMAIN prices
             THEN float_add(total_value,
                            float_mul(prices[Head(keys)], holdings[Head(keys)]))
             ELSE total_value,
             holdings, prices, Tail(keys))

\* Portfolio.get_value on float amounts
get_value_float(pf, prices) ==
    AddHoldings(pf.cash, pf.holdings, prices, KeyOrder(pf.transactions))

\* ---------------------------------------------------------------- StockMarketSimulator

\* data.index.asof(simulation_date): the latest index date at or before the
\* date, as a set of at most one date (empty: NaT)
asof(index, simulation_date) ==
    LET upto == {d \in index : d <= simulation_date} IN
    IF upto = {} THEN {} ELSE {CHOOSE d \in upto : \A e \in upto : e <= d}

\* StockMarketSimulator.get_price: a price, None, or ValueError raised
get_price(symbol, simulation_date) ==
    IF symbol \notin DOMAIN historical_data
    THEN [kind |-> "raise", price |-> 0]
    ELSE LET data == historical_data[symbol]
             nearest_date == asof(DOMAIN data, simulation_date) IN
         IF nearest_date = {}
         THEN [kind |-> "None", price |-> 0]
         ELSE [kind |-> "price", price |-> data[CHOOSE d \in nearest_date : TRUE]]

\* StockMarketSimulator.update_prices: the prices found, or ValueError raised
update_prices(simulation_date) ==
    IF \E i \in 1..Len(symbols) : get_price(symbols[i], simulation_date).kind = "raise"
    THEN [kind |-> "raise", prices |-> EmptyDict]
    ELSE [kind |-> "ok",
          prices |-> [sym \in {x \in Symbols : get_price(x, simulation_date).kind = "price"}
                         |-> get_price(sym, simulation_date).price]]

\* the closing prices of the histories: the lowest and the highest price
ClosePrices == {20, 20 * MaxPriceSteps}

\* the histories yf.download may have produced for one symbol: nothing (the
\* symbol is then left out of historical_data) or a Close for each trading
\* day of a nonempty set of dates
Histories == UNION {[D -> ClosePrices] : D \in SUBSET (0..MaxDataDate)}

\* StockMarketSimulator.__init__: symbols whose download was empty are left out
LoadedData(downloaded) ==
    [sym \in {x \in Symbols : DOMAIN downloaded[x] # {}} |-> downloaded[sym]]

\* ---------------------------------------------------------------- NewsFetcher

\* a news item is a JSON object ("object") or any other JSON value ("other")
\* the fallback of fetch_news: one dummy item, an object
DummyNews == <<"object">>

\* the article lists explored as the "articles" of a NewsAPI answer
ArticleLists ==
    {<<>>, <<"object">>, <<"other">>, <<"object", "other">>}

\* what may happen to one request for news
NewsAnswers ==
    {[kind |-> "no_key", articles |-> <<>>],      \* no api_key: no request is made
     [kind |-> "failed", articles |-> <<>>],      \* the request or response.json() raises
     [kind |-> "error", articles |-> <<>>],       \* the status is not "ok"
     [kind |-> "not_sliceable", articles |-> <<>>]}  \* "articles" is null, a number, an object
    \cup {[kind |-> "ok", articles |-> a] : a \in ArticleLists}

\* NewsFetcher.fetch_news: the list handed to main()
fetch_news(answer) ==
    IF answer.kind = "ok"
    THEN SubSeq(answer.articles, 1,
                IF Len(answer.articles) < 5 THEN Len(answer.articles) ELSE 5)
    ELSE DummyNews

\* no articles are held between two symbols
NoArticles == <<>>

\* ---------------------------------------------------------------- LLMAnalyzer

\* LLMAnalyzer.analyze, building news_summary: article.get raises
\* AttributeError on an item that is not an object, before the try
news_summary_raises(news_articles) ==
    \E i \in 1..Len(news_articles) : news_articles[i] # "object"


\* JSON field values: absent, a string, a number
Absent == [t |-> "absent", s |-> "", n |-> 0]
Str(x) == [t |-> "str", s |-> x, n |-> 0]
Num(x) == [t |-> "num", s |-> "", n |-> x]

\* a JSON value as json.loads returns it: an object with the fields the loop
\* reads, or something that is not an object (an array)
JObject(symbol, buy_limit, sell_limit, action) ==
    [kind |-> "object", symbol |-> symbol, buy_limit |-> buy_limit,
     sell_limit |-> sell_limit, action |-> action]
JArray ==
    [kind |-> "array", symbol |-> Absent, buy_limit |-> Absent,
     sell_limit |-> Absent, action |-> Absent]

\* what the provider may answer for one request
WellFormedArguments(symbol) ==
    {JObject(Str(symbol), Num(b), Num(s), Str(a)) :
        b \in ClosePrices, s \in ClosePrices, a \in {"BUY", "SELL", "HOLD"}}
MalformedArguments(symbol) ==
    {JArray,
     JObject(Absent, Absent, Absent, Absent),
     JObject(Str(symbol), Absent, Absent, Str("BUY")),
     JObject(Str(symbol), Absent, Absent, Str("SELL")),
     JObject(Str(symbol), Num(20), Num(20), Str("buy")),
     JObject(Str(symbol), Num(20), Num(20), Str("WAIT")),
     JObject(Str(symbol), Num(20), Num(20), Num(1)),
     JObject(Str(symbol), Str("n/a"), Num(20), Str("BUY")),
     JObject(Str(symbol), Str("n/a"), Num(20), Str("SELL")),
     JObject(Str(symbol), Num(20), Str("n/a"), Str("SELL")),
     JObject(Str(symbol), Num(20), Str("n/a"), Str("BUY"))}
ProviderOutcomes(symbol) ==
    {[kind |-> "exception", value |-> JArray],       \* create() raises
     [kind |-> "content", value |-> JArray],         \* an answer with no function call
     [kind |-> "unparsable", value |-> JArray],      \* function call, arguments not JSON
     [kind |-> "null", value |-> JArray]}            \* function call, arguments "null"
    \cup {[kind |-> "arguments", value |-> v] :
             v \in WellFormedArguments(symbol) \cup MalformedArguments(symbol)}

\* LLMAnalyzer.analyze, the fallback recommendation
Fallback(symbol, current_price) ==
    JObject(Str(symbol), Num((current_price * 95) \div 100),
            Num((current_price * 105) \div 100), Str("HOLD"))

\* LLMAnalyzer.analyze: what it returns for a provider outcome, or the
\* exception it raises. The news summary is built outside the try, so its
\* AttributeError leaves analyze. An answer with no function call goes to
\* message.get("content", ""), which the provider's message object does not
\* have: that AttributeError is caught and the recommendation is None, like
\* unparsable arguments and a JSON null.
analyze(symbol, news_articles, outcome, current_price) ==
    IF news_summary_raises(news_articles)
    THEN [kind |-> "raise", exc |-> "AttributeError", value |-> JArray]
    ELSE IF outcome.kind = "arguments"
    THEN [kind |-> "return", exc |-> "", value |-> outcome.value]
    ELSE [kind |-> "return", exc |-> "", value |-> Fallback(symbol, current_price)]

\* ---------------------------------------------------------------- main(): one symbol

\* str.upper on the action strings of the model
upper(x) ==
    CASE x = "buy" -> "BUY"
      [] x = "sell" -> "SELL"
      [] x = "hold" -> "HOLD"
      [] OTHER -> x

\* buys a single share instead of all the cash affords
shares_to_buy_OneShare(pf, current_price) ==
    IF pf.cash >= current_price THEN 1 ELSE 0

\* main(): shares_to_buy
shares_to_buy(pf, current_price) == pf.cash \div current_price

\* sells a single share instead of the whole holding
shares_to_sell_OneShare(pf, symbol) ==
    IF Get(pf.holdings, symbol, 0) > 0 THEN 1 ELSE 0

\* main(): shares_to_sell
shares_to_sell(pf, symbol) == Get(pf.holdings, symbol, 0)

\* the branch chosen by the limits alone, whatever the action says
decide_LimitsOnly(rec, price) ==
    IF rec.kind # "object" \/ rec.action.t = "num"
    THEN [branch |-> "raise", exc |-> "AttributeError", action |-> ""]
    ELSE
    LET action == IF rec.action.t = "absent" THEN "HOLD" ELSE upper(rec.action.s) IN
    IF rec.buy_limit.t = "num" /\ price <= rec.buy_limit.n
    THEN [branch |-> "buy", exc |-> "", action |-> action]
    ELSE IF rec.sell_limit.t = "num" /\ price >= rec.sell_limit.n
    THEN [branch |-> "sell", exc |-> "", action |-> action]
    ELSE [branch |-> "none", exc |-> "", action |-> action]

\* main(), reading the recommendation and choosing the branch: "buy", "sell",
\* "none" (the else branch) or "raise" with the exception
decide(rec, price) ==
    IF rec.kind # "object"
    THEN [branch |-> "raise", exc |-> "AttributeError", action |-> ""]
    ELSE
    LET a == IF rec.action.t = "absent" THEN Str("HOLD")
             ELSE rec.action
        buy_limit == IF rec.buy_limit.t = "absent" THEN Num(price)
                     ELSE rec.buy_limit
        sell_limit == IF rec.sell_limit.t = "absent" THEN Num(price)
                      ELSE rec.sell_limit
    IN
    IF a.t # "str"
    THEN [branch |-> "raise", exc |-> "AttributeError", action |-> ""]
    ELSE
    LET action == upper(a.s) IN
    IF action = "BUY"
    THEN IF buy_limit.t # "num"
         THEN [branch |-> "raise", exc |-> "TypeError", action |-> action]
         ELSE IF price <= buy_limit.n
              THEN [branch |-> "buy", exc |-> "", action |-> action]
              ELSE [branch |-> "none", exc |-> "", action |-> action]
    ELSE IF action = "SELL"
    THEN IF sell_limit.t # "num"
         THEN [branch |-> "raise", exc |-> "TypeError", action |-> action]
         ELSE IF price >= sell_limit.n
              THEN [branch |-> "sell", exc |-> "", action |-> action]
              ELSE [branch |-> "none", exc |-> "", action |-> action]
    ELSE [branch |-> "none", exc |-> "", action |-> action]

\* main(), the trade of one symbol: the portfolio afterwards
trade(pf, symbol, current_price, branch, trade_date) ==
    IF branch = "buy"
    THEN IF shares_to_buy(pf, current_price) > 0
         THEN buy(pf, symbol, current_price, shares_to_buy(pf, current_price),
                  trade_date).pf
         ELSE pf
    ELSE IF branch = "sell"
    THEN IF shares_to_sell(pf, symbol) > 0
         THEN sell(pf, symbol, current_price, shares_to_sell(pf, symbol),
                   trade_date).pf
         ELSE pf
    ELSE pf

\* ---------------------------------------------------------------- direct calls

NoStep ==
    [symbol |-> "", price |-> 0, branch |-> "", action |-> "", date |-> 0,
     pre |-> NewPortfolio(0)]

\* no recommendation is held between two symbols
NoRecommendation ==
    [kind |-> "none", symbol |-> Absent, buy_limit |-> Absent,
     sell_limit |-> Absent, action |-> Absent]

NoCall ==
    [op |-> "none", symbol |-> "", price |-> 0, shares |-> 0,
     ret |-> FALSE, value |-> 0, pre |-> NewPortfolio(0)]

Init ==
    /\ initial_cash \in InitialCashChoices
    /\ portfolio = NewPortfolio(initial_cash)
    /\ current_date = 0
    /\ call = NoCall
    /\ ncalls = 0
    /\ simulation_days = 0
    /\ historical_data = EmptyDict
    /\ pc = "calls"
    /\ exc = ""
    /\ days_run = 0
    /\ current_prices = EmptyDict
    /\ idx = 0
    /\ iterations = 0
    /\ n_news = 0
    /\ n_analyze = 0
    /\ articles = NoArticles
    /\ recommendation = NoRecommendation
    /\ step = NoStep

Buy ==
    /\ ncalls < MaxCalls
    /\ \E symbol \in Symbols, price \in Prices, shares \in 1..MaxShares :
         LET r == buy(portfolio, symbol, price, shares, current_date) IN
         /\ portfolio' = r.pf
         /\ call' = [op |-> "buy", symbol |-> symbol, price |-> price,
                     shares |-> shares, ret |-> r.ret, value |-> 0,
                     pre |-> portfolio]
    /\ ncalls' = ncalls + 1
    /\ UNCHANGED <<initial_cash, current_date, loop_vars>>

Sell ==
    /\ ncalls < MaxCalls
    /\ \E symbol \in Symbols, price \in Prices, shares \in 1..MaxShares :
         LET r == sell(portfolio, symbol, price, shares, current_date) IN
         /\ portfolio' = r.pf
         /\ call' = [op |-> "sell", symbol |-> symbol, price |-> price,
                     shares |-> shares, ret |-> r.ret, value |-> 0,
                     pre |-> portfolio]
    /\ ncalls' = ncalls + 1
    /\ UNCHANGED <<initial_cash, current_date, loop_vars>>

\* the price mappings a caller may pass to get_value
PriceMaps == UNION {[S -> Prices] : S \in SUBSET Symbols}

GetValue ==
    /\ ncalls < MaxCalls
    /\ \E prices \in PriceMaps :
         call' = [op |-> "get_value", symbol |-> "", price |-> 0, shares |-> 0,
                  ret |-> TRUE, value |-> get_value(portfolio, prices),
                  pre |-> portfolio]
    /\ ncalls' = ncalls + 1
    /\ UNCHANGED <<portfolio, initial_cash, current_date, loop_vars>>

Next == Buy \/ Sell \/ GetValue

Spec == Init /\ [][Next]_vars

\* ---------------------------------------------------------------- direct calls, floats

\* a Portfolio constructed with a float, before any call
FloatInit ==
    /\ initial_cash \in FloatCashChoices
    /\ portfolio = NewPortfolio(initial_cash)
    /\ current_date = 0
    /\ call = NoCall
    /\ ncalls = 0
    /\ simulation_days = 0
    /\ historical_data = EmptyDict
    /\ pc = "calls"
    /\ exc = ""
    /\ days_run = 0
    /\ current_prices = EmptyDict
    /\ idx = 0
    /\ iterations = 0
    /\ n_news = 0
    /\ n_analyze = 0
    /\ articles = NoArticles
    /\ recommendation = NoRecommendation
    /\ step = NoStep

BuyFloat ==
    /\ ncalls < MaxCalls
    /\ \E symbol \in Symbols, price \in FloatPrices, shares \in 1..MaxShares :
         LET r == buy_float(portfolio, symbol, price, shares, current_date) IN
         /\ portfolio' = r.pf
         /\ call' = [op |-> "buy", symbol |-> symbol, price |-> price,
                     shares |-> shares, ret |-> r.ret, value |-> Float(0, 0),
                     pre |-> portfolio]
    /\ ncalls' = ncalls + 1
    /\ UNCHANGED <<initial_cash, current_date, loop_vars>>

SellFloat ==
    /\ ncalls < MaxCalls
    /\ \E symbol \in Symbols, price \in FloatPrices, shares \in 1..MaxShares :
         LET r == sell_float(portfolio, symbol, price, shares, current_date) IN
         /\ portfolio' = r.pf
         /\ call' = [op |-> "sell", symbol |-> symbol, price |-> price,
                     shares |-> shares, ret |-> r.ret, value |-> Float(0, 0),
                     pre |-> portfolio]
    /\ ncalls' = ncalls + 1
    /\ UNCHANGED <<initial_cash, current_date, loop_vars>>

\* the price mappings a caller may pass to get_value
FloatPriceMaps == UNION {[S -> FloatPrices] : S \in SUBSET Symbols}

GetValueFloat ==
    /\ ncalls < MaxCalls
    /\ \E prices \in FloatPriceMaps :
         call' = [op |-> "get_value", symbol |-> "", price |-> Float(0, 0),
                  shares |-> 0, ret |-> TRUE,
                  value |-> get_value_float(portfolio, prices),
                  pre |-> portfolio]
    /\ ncalls' = ncalls + 1
    /\ UNCHANGED <<portfolio, initial_cash, current_date, loop_vars>>

FloatNext == BuyFloat \/ SellFloat \/ GetValueFloat

FloatSpec == FloatInit /\ [][FloatNext]_vars

\* ---------------------------------------------------------------- main(): the loop

\* main() up to the loop: the portfolio holds the configured initial cash, the
\* price source holds what yf.download returned (rows dated from the start
\* date on, inside the downloaded range), current_date is the start date (0)
SimInit ==
    /\ initial_cash = 25 * MaxCashSteps
    /\ portfolio = NewPortfolio(initial_cash)
    /\ simulation_days \in 1..MaxSimulationDays
    /\ \E downloaded \in [Symbols -> Histories] :
           historical_data = LoadedData(downloaded)
    /\ current_date = 0
    /\ days_run = 0
    /\ pc = "loop"
    /\ exc = ""
    /\ current_prices = EmptyDict
    /\ idx = 0
    /\ iterations = 0
    /\ n_news = 0
    /\ n_analyze = 0
    /\ articles = NoArticles
    /\ recommendation = NoRecommendation
    /\ step = NoStep
    /\ call = NoCall
    /\ ncalls = 0

\* main(): the date after a day without prices
skip_to(date) == date + 1

\* main(): the date after a trading day
advance(date) == date + simulation_interval

\* update_prices raises: a symbol has no historical data
RaiseNoHistory ==
    /\ pc = "loop"
    /\ days_run < simulation_days
    /\ update_prices(current_date).kind = "raise"
    /\ pc' = "raised"
    /\ exc' = "ValueError"
    /\ iterations' = iterations + 1
    /\ UNCHANGED <<ledger_vars, simulation_days, historical_data, days_run,
                   current_prices, idx, n_news, n_analyze, articles, recommendation, step>>

\* `if not current_prices`: skip the day
SkipDay ==
    /\ pc = "loop"
    /\ days_run < simulation_days
    /\ update_prices(current_date).kind = "ok"
    /\ DOMAIN update_prices(current_date).prices = {}
    /\ current_prices' = update_prices(current_date).prices
    /\ current_date' = skip_to(current_date)
    /\ iterations' = iterations + 1
    /\ UNCHANGED <<portfolio, initial_cash, call, ncalls, simulation_days,
                   historical_data, pc, exc, days_run, idx, n_news, n_analyze, articles, recommendation, step>>

\* a trading day starts
StartDay ==
    /\ pc = "loop"
    /\ days_run < simulation_days
    /\ update_prices(current_date).kind = "ok"
    /\ DOMAIN update_prices(current_date).prices # {}
    /\ current_prices' = update_prices(current_date).prices
    /\ pc' = "symbols"
    /\ idx' = 1
    /\ iterations' = iterations + 1
    /\ UNCHANGED <<ledger_vars, simulation_days, historical_data, exc, days_run,
                   n_news, n_analyze, articles, recommendation, step>>

\* `if symbol not in current_prices: continue`
SkipSymbol ==
    /\ pc = "symbols"
    /\ idx <= Len(symbols)
    /\ symbols[idx] \notin DOMAIN current_prices
    /\ idx' = idx + 1
    /\ UNCHANGED <<ledger_vars, simulation_days, historical_data, pc, exc, days_run,
                   current_prices, iterations, n_news, n_analyze, articles, recommendation, step>>

\* one symbol with a price: fetch_news hands back the articles
FetchNews ==
    /\ pc = "symbols"
    /\ idx <= Len(symbols)
    /\ symbols[idx] \in DOMAIN current_prices
    /\ \E answer \in NewsAnswers : articles' = fetch_news(answer)
    /\ n_news' = n_news + 1
    /\ pc' = "analyze"
    /\ UNCHANGED <<ledger_vars, simulation_days, historical_data, exc, days_run,
                   current_prices, idx, iterations, n_analyze, recommendation, step>>

\* analyze hands back a recommendation, or raises on the news it was given
\* (the provider is not asked then)
Analyze ==
    /\ pc = "analyze"
    /\ IF news_summary_raises(articles)
       THEN /\ pc' = "raised"
            /\ exc' = "AttributeError"
            /\ UNCHANGED <<articles, recommendation>>
       ELSE /\ \E outcome \in ProviderOutcomes(symbols[idx]) :
                 LET r == analyze(symbols[idx], articles, outcome,
                                  current_prices[symbols[idx]]) IN
                 /\ r.kind = "return"
                 /\ recommendation' = r.value
            /\ pc' = "trade"
            /\ articles' = NoArticles
            /\ UNCHANGED exc
    /\ n_analyze' = n_analyze + 1
    /\ UNCHANGED <<ledger_vars, simulation_days, historical_data, days_run,
                   current_prices, idx, iterations, n_news, step>>

\* the recommendation is read and the trade, if any, is made
Trade ==
    /\ pc = "trade"
    /\ LET symbol == symbols[idx]
           current_price == current_prices[symbol]
           d == decide(recommendation, current_price)
       IN
       /\ step' = [symbol |-> symbol, price |-> current_price,
                   branch |-> d.branch, action |-> d.action,
                   date |-> current_date, pre |-> portfolio]
       /\ IF d.branch = "raise"
          THEN /\ pc' = "raised"
               /\ exc' = d.exc
               /\ UNCHANGED <<portfolio, idx, recommendation>>
          ELSE /\ portfolio' = trade(portfolio, symbol, current_price, d.branch,
                                     current_date)
               /\ idx' = idx + 1
               /\ pc' = "symbols"
               /\ recommendation' = NoRecommendation
               /\ UNCHANGED exc
    /\ UNCHANGED <<initial_cash, current_date, call, ncalls, simulation_days,
                   historical_data, days_run, current_prices, iterations,
                   n_news, n_analyze, articles>>

\* the end of a trading day: the value is reported (get_value only reads),
\* the day is counted and the date moves on
EndOfDay ==
    /\ pc = "symbols"
    /\ idx > Len(symbols)
    /\ days_run' = days_run + 1
    /\ current_date' = advance(current_date)
    /\ pc' = "loop"
    /\ UNCHANGED <<portfolio, initial_cash, call, ncalls, simulation_days,
                   historical_data, exc, current_prices, idx, iterations,
                   n_news, n_analyze, articles, recommendation, step>>

\* the loop is left: the final value is taken at simulation_end_date, which
\* is simulation_days days after the start date
Finish ==
    /\ pc = "loop"
    /\ days_run >= simulation_days
    /\ IF update_prices(simulation_days).kind = "raise"
       THEN pc' = "raised" /\ exc' = "ValueError"
       ELSE pc' = "done" /\ exc' = exc
    /\ UNCHANGED <<ledger_vars, simulation_days, historical_data, days_run,
                   current_prices, idx, iterations, n_news, n_analyze, articles, recommendation, step>>

SimNext ==
    \/ RaiseNoHistory
    \/ SkipDay
    \/ StartDay
    \/ SkipSymbol
    \/ FetchNews
    \/ Analyze
    \/ Trade
    \/ EndOfDay
    \/ Finish

SimSpec == SimInit /\ [][SimNext]_vars

\* the loop is sequential: whenever a step can be taken, it is taken
FairSimSpec == SimSpec /\ WF_vars(SimNext)

\* ---------------------------------------------------------------- ledger claims

\* C1: after every sequence of buy and sell calls, accepted and rejected
\* mixed, cash is nonnegative and every holding is nonnegative.
C1_NonNegative ==
    /\ portfolio.cash >= 0
    /\ \A s \in DOMAIN portfolio.holdings : portfolio.holdings[s] >= 0

\* a rejected buy after two accepted trades, one of them a sell
C1_Witness ==
    /\ call.op = "buy" /\ ~call.ret
    /\ Len(portfolio.transactions) = 2
    /\ portfolio.transactions[2].action = "SELL"

\* C2: a buy called with cash < price*shares, and a sell called with
\* holdings.get(symbol, 0) < shares, return false and leave cash, every
\* holdings entry and the transaction log as they were before the call.
C2_RejectedUnchanged ==
    /\ (call.op = "buy" /\ call.pre.cash < call.price * call.shares)
          => (~call.ret /\ portfolio = call.pre)
    /\ (call.op = "sell" /\ Get(call.pre.holdings, call.symbol, 0) < call.shares)
          => (~call.ret /\ portfolio = call.pre)

\* a sell of a symbol never bought, rejected, on a portfolio that has traded
C2_Witness ==
    /\ call.op = "sell"
    /\ call.symbol \notin DOMAIN call.pre.holdings
    /\ ~call.ret
    /\ Len(portfolio.transactions) > 0

\* C3: once a buy has been accepted, a sell of the same symbol, shares and
\* price made right after it is accepted too and returns cash and the
\* symbol's share count to their values before the buy (on float amounts).
C3_RoundTrip ==
    (call.op = "buy" /\ call.ret) =>
        LET r == sell_float(portfolio, call.symbol, call.price, call.shares,
                            current_date) IN
        /\ r.ret
        /\ r.pf.cash = call.pre.cash
        /\ Get(r.pf.holdings, call.symbol, 0) = Get(call.pre.holdings, call.symbol, 0)

RECURSIVE SumAmount(_, _)
\* the sum of price*shares over the records of `log` whose action is
\* `action`, exact
SumAmount(log, action) ==
    IF log = <<>> THEN Float(0, 0)
    ELSE exact_add(IF Head(log).action = action
                   THEN exact_mul(Head(log).price, Head(log).shares)
                   ELSE Float(0, 0),
                   SumAmount(Tail(log), action))

RECURSIVE SumShares(_, _, _)
\* the sum of shares over the records of `log` for `symbol` with action `action`
SumShares(log, action, symbol) ==
    IF log = <<>> THEN 0
    ELSE (IF Head(log).action = action /\ Head(log).symbol = symbol
          THEN Head(log).shares ELSE 0)
           + SumShares(Tail(log), action, symbol)

RECURSIVE FloatSumAmount(_, _, _)
\* the same sum as Python adds it up on floats, record after record, onto
\* `total`
FloatSumAmount(log, action, total) ==
    IF log = <<>> THEN total
    ELSE FloatSumAmount(Tail(log), action,
             IF Head(log).action = action
             THEN float_add(total, float_mul(Head(log).price, Head(log).shares))
             ELSE total)

\* cash = initial cash - logged buys + logged sells in exact arithmetic
\* (the logged buys moved to the left-hand side)
CashAccountedForExactly ==
    exact_add(portfolio.cash, SumAmount(portfolio.transactions, "BUY"))
        = exact_add(initial_cash, SumAmount(portfolio.transactions, "SELL"))

\* cash == initial_cash - sum(buys) + sum(sells) as Python evaluates it on
\* floats (the logged buys of the runs explored never exceed the initial cash)
CashAccountedForInFloats ==
    portfolio.cash =
        float_add(float_sub(initial_cash,
                            FloatSumAmount(portfolio.transactions, "BUY", Float(0, 0))),
                  FloatSumAmount(portfolio.transactions, "SELL", Float(0, 0)))

\* cash is accounted for by the log, in exact arithmetic or at least as
\* floats evaluate the sums
CashAccountedFor == CashAccountedForExactly \/ CashAccountedForInFloats

\* each holding = logged bought - logged sold shares
HoldingsAccountedFor ==
    \A s \in Symbols :
        Get(portfolio.holdings, s, 0) =
            SumShares(portfolio.transactions, "BUY", s)
              - SumShares(portfolio.transactions, "SELL", s)

\* an accepted buy or sell appends exactly one record, with its cash delta
\* (as buy and sell compute it) and its holdings delta
OneRecordPerTrade ==
    /\ (call.op = "buy" /\ call.ret) =>
         /\ portfolio.transactions = Append(call.pre.transactions,
                Transaction(current_date, call.symbol, "BUY", call.price, call.shares))
         /\ portfolio.cash =
                float_sub(call.pre.cash, float_mul(call.price, call.shares))
         /\ \A s \in Symbols :
              Get(portfolio.holdings, s, 0) = Get(call.pre.holdings, s, 0)
                  + (IF s = call.symbol THEN call.shares ELSE 0)
    /\ (call.op = "sell" /\ call.ret) =>
         /\ portfolio.transactions = Append(call.pre.transactions,
                Transaction(current_date, call.symbol, "SELL", call.price, call.shares))
         /\ portfolio.cash =
                float_add(call.pre.cash, float_mul(call.price, call.shares))
         /\ \A s \in Symbols :
              Get(portfolio.holdings, s, 0) = Get(call.pre.holdings, s, 0)
                  - (IF s = call.symbol THEN call.shares ELSE 0)

\* a rejected call or get_value changes nothing
NothingElseChanges ==
    (call.op = "get_value" \/ (call.op \in {"buy", "sell"} /\ ~call.ret))
        => portfolio = call.pre

\* C4: the log accounts for the ledger (cash = initial cash - logged buys +
\* logged sells, each holding = logged bought - logged sold shares), an
\* accepted buy or sell appends exactly one record with its cash and holdings
\* delta, and a rejected call or get_value changes nothing (on float amounts).
C4_LogAccountsForLedger ==
    /\ CashAccountedFor
    /\ HoldingsAccountedFor
    /\ OneRecordPerTrade
    /\ NothingElseChanges

\* ---------------------------------------------------------------- loop claims

\* the symbol being traded and its price, at pc = "trade"
TradedSymbol == symbols[idx]
TradedPrice == current_prices[symbols[idx]]

\* the action of the recommendation is a string that reads `name`, whatever its case
ActionIs(name) ==
    /\ recommendation.kind = "object"
    /\ recommendation.action.t = "str"
    /\ upper(recommendation.action.s) = name

\* the recommendation says BUY and the price is at or below its buy_limit
\* (a recommendation without buy_limit is read with the current price as the limit)
BuySignal ==
    /\ ActionIs("BUY")
    /\ \/ recommendation.buy_limit.t = "absent"
       \/ /\ recommendation.buy_limit.t = "num"
          /\ TradedPrice <= recommendation.buy_limit.n

\* the recommendation says SELL and the price is at or above its sell_limit
SellSignal ==
    /\ ActionIs("SELL")
    /\ \/ recommendation.sell_limit.t = "absent"
       \/ /\ recommendation.sell_limit.t = "num"
          /\ TradedPrice >= recommendation.sell_limit.n

\* C5: on BUY with current_price <= buy_limit the loop buys exactly
\* floor(cash / current_price) shares of the symbol at current_price, with the
\* cash held at that moment; when that is 0 shares the portfolio is unchanged
\* and nothing is logged.
C5_BuysMaxAffordable ==
    [][(pc = "trade" /\ BuySignal) =>
          LET q == portfolio.cash \div TradedPrice IN
          IF q > 0
          THEN portfolio' =
                 [cash |-> portfolio.cash - q * TradedPrice,
                  holdings |-> Put(portfolio.holdings, TradedSymbol,
                                   Get(portfolio.holdings, TradedSymbol, 0) + q),
                  transactions |-> Append(portfolio.transactions,
                      Transaction(current_date, TradedSymbol, "BUY", TradedPrice, q))]
          ELSE portfolio' = portfolio]_vars

\* the second symbol of a day bought with what the first symbol's buy left
C5_Witness ==
    /\ pc = "symbols"
    /\ step.branch = "buy"
    /\ step.symbol = symbols[2]
    /\ Len(step.pre.transactions) > 0
    /\ step.pre.transactions[Len(step.pre.transactions)].date = step.date
    /\ step.pre.cash < initial_cash
    /\ Len(portfolio.transactions) = Len(step.pre.transactions) + 1
    /\ portfolio.transactions[Len(portfolio.transactions)].shares
           = step.pre.cash \div step.price

\* C6: on SELL with current_price >= sell_limit the loop sells the whole
\* holding of the symbol at current_price: afterwards the holding is 0 and
\* cash has grown by holding * current_price; with a holding of 0 the
\* portfolio is unchanged and nothing is logged.
C6_SellsWholeHolding ==
    [][(pc = "trade" /\ SellSignal) =>
          LET h == Get(portfolio.holdings, TradedSymbol, 0) IN
          IF h > 0
          THEN portfolio' =
                 [cash |-> portfolio.cash + h * TradedPrice,
                  holdings |-> Put(portfolio.holdings, TradedSymbol, 0),
                  transactions |-> Append(portfolio.transactions,
                      Transaction(current_date, TradedSymbol, "SELL", TradedPrice, h))]
          ELSE portfolio' = portfolio]_vars

\* a holding of more than one share sold whole
C6_Witness ==
    /\ pc = "symbols"
    /\ step.branch = "sell"
    /\ Get(step.pre.holdings, step.symbol, 0) > 1
    /\ portfolio.holdings[step.symbol] = 0
    /\ portfolio.cash = step.pre.cash
                          + step.pre.holdings[step.symbol] * step.price

\* C7: the action field selects the branch. Processing one symbol logs at
\* most one transaction, a BUY only on BUY with current_price <= buy_limit, a
\* SELL only on SELL with current_price >= sell_limit; otherwise (HOLD, BUY
\* above buy_limit, SELL below sell_limit) the portfolio is unchanged whatever
\* cash and holdings are, and the limit of the other action is never read:
\* an unreadable sell_limit does not disturb a BUY or a HOLD, nor an
\* unreadable buy_limit a SELL or a HOLD.
C7_ActionSelectsBranch ==
    [][pc = "trade" =>
          LET before == portfolio.transactions
              after == portfolio'.transactions
          IN
          /\ \/ after = before
             \/ /\ Len(after) = Len(before) + 1
                /\ SubSeq(after, 1, Len(before)) = before
                /\ after[Len(after)].action = "BUY" => BuySignal
                /\ after[Len(after)].action = "SELL" => SellSignal
          /\ (~BuySignal /\ ~SellSignal) => portfolio' = portfolio
          /\ (ActionIs("BUY") /\ recommendation.buy_limit.t # "str") => pc' # "raised"
          /\ (ActionIs("SELL") /\ recommendation.sell_limit.t # "str") => pc' # "raised"
          /\ ActionIs("HOLD") => pc' # "raised"]_vars

\* SELL below sell_limit while shares of the symbol are held: no trade
C7_Witness ==
    /\ pc = "symbols"
    /\ step.action = "SELL"
    /\ step.branch = "none"
    /\ Get(step.pre.holdings, step.symbol, 0) > 0
    /\ portfolio = step.pre

\* the price source has data for every symbol and none at or before the date
AllUnavailable ==
    \A s \in Symbols : get_price(s, current_date).kind = "None"

\* C8: on a day where no symbol has a price, no news is fetched, no
\* recommendation is requested, the portfolio is unchanged, and the date
\* advances by the configured interval.
C8_SkippedDayAdvancesByInterval ==
    [][(pc = "loop" /\ days_run < simulation_days /\ AllUnavailable) =>
          /\ portfolio' = portfolio
          /\ n_news' = n_news
          /\ n_analyze' = n_analyze
          /\ current_date' = current_date + simulation_interval]_vars

\* C9 (as claimed): the loop never ends in an exception, and when it has
\* ended it has made exactly simulation_days iterations, skipped days included.
C9_CompletesAfterConfiguredIterations ==
    /\ pc # "raised"
    /\ pc = "done" => iterations = simulation_days

\* every run of the loop ends, completed or with an exception
SimTerminates == <>(pc \in {"done", "raised"})

\* a recommendation with all four fields and an action of the enumeration
ValidRecommendation(rec) ==
    /\ rec.kind = "object"
    /\ rec.symbol.t = "str"
    /\ rec.buy_limit.t = "num"
    /\ rec.sell_limit.t = "num"
    /\ rec.action.t = "str"
    /\ rec.action.s \in {"BUY", "SELL", "HOLD"}

\* C10 (as claimed): whatever the provider answers, analyze hands the loop a
\* record with symbol, buy_limit, sell_limit and an action in {BUY, SELL,
\* HOLD}, and the loop's reading of it never raises.
C10_AlwaysValidRecommendation ==
    /\ pc = "trade" => ValidRecommendation(recommendation)
    /\ exc \notin {"AttributeError", "TypeError"}

====
